---- MODULE Spec2Model ----
(***************************************************************************)
(* Model of the conversational agent backend: the WebSocket endpoint with  *)
(* its ConnectionManager (app/api/routes/websocket.py) and the Redis chat  *)
(* history (app/services/cache.py).                                        *)
(*                                                                         *)
(* Spec      : the websocket_endpoint handlers, one per connection, each   *)
(*             advancing from one await to the next; the clients; the      *)
(*             shared connection registry and Redis lists.                 *)
(* SpecOwn   : the same with every connection on a session id of its own.  *)
(* SpecExpiry: one connection's handler while Redis expires the keys.      *)
(* SpecManager: ConnectionManager used as an API.                          *)
(* SpecStore : RedisChatMessageHistory used as an API (add_message,        *)
(*             get_messages, clear) over the Redis list commands, with     *)
(*             time passing.                                               *)
(* SpecCache : ChatCache over RedisDatabase (app/services/chat/cache.py).  *)
(* SpecHistory: the session-bound history of chat_history.py.              *)
(* SpecRag   : one run of RAGService.process_query with the               *)
(*             QueryUnderstandingEngine (app/retrieval/rag).               *)
(* SpecTurn  : one connection's handler together with the process_query   *)
(*             run it awaits, while Redis expires the keys.                *)
(* SpecSearch: HyDESearch.search as a function of a ranked corpus.         *)
(* SpecWS    : the frontend's WSManager (frontend/app.py) with its reader   *)
(*             and writer tasks, the user and the server.                  *)
(* SpecPool  : requests taking their database connection from the pool     *)
(*             (app/dependencies/database.py).                             *)
(* SpecTokens: the token loop of the endpoint (and ws_utils.send_tokens)   *)
(*             on an answer text.                                          *)
(***************************************************************************)
EXTENDS Integers, Sequences, FiniteSets, TLC

\* ------------------------------------------------------------------ bounds
MaxFrames == 2      \* frames the clients send, all connections together
MaxWords == 1       \* words of an answer returned by process_query
MaxFaults == 1      \* Redis failures, pipeline failures and client disconnects in a run
MaxCalls == 4       \* ConnectionManager calls in a run of SpecManager
MaxAppends == 3     \* add_message calls in a run of SpecStore
MaxLimit == 2       \* largest limit passed to get_messages in SpecStore
MaxDocs == 4        \* documents in the corpus
MaxSim == 3         \* similarities are 0..MaxSim (tenths)
MaxText == 4        \* characters of an answer handed to the token loop
MaxMsgs == 3        \* payloads passed to WSManager.send
MaxCloses == 2      \* connections the server closes in a run of SpecWS
MaxRequests == 12   \* requests in a run of SpecPool
MaxInFlight == 2    \* requests served at the same time in SpecPool
MaxK == 2           \* largest k passed to search in SpecSearch

Conns == {"c1", "c2"}           \* websocket connections (one handler each)
Sessions == {"s1", "s2"}        \* session ids a client can put in the path
\* the session ids connection c can come with: the second connection shares
\* the first one's session id or has its own
SessionsOf(c) == IF c = "c1" THEN {"s1"} ELSE Sessions
OwnSession(c) == IF c = "c1" THEN "s1" ELSE "s2"
NoConn == "none"
ExcTexts == {"e1", "e2"}        \* str(e) of the exceptions process_query can raise
StoreText == "redis"            \* str(e) of an exception raised by a Redis call
TransportText == "ws"           \* str(e) of an exception raised by send_text
Roles == {"user", "assistant"}

\* frames a client can send: a JSON object with a non-empty "message", a JSON
\* object whose "message" is missing or empty, text that is not JSON, and JSON
\* that is not an object
Frames == {"msg", "empty", "notjson", "notobject"}
Unparseable == {"notjson", "notobject"}

VARIABLES
    active,      \* manager.active_connections: session id -> websocket (NoConn: key absent)
    pc,          \* position of each handler
    sid,         \* session_id path parameter of each connection
    nrecv,       \* frames received on each connection; numbers the messages
    frame,       \* the frame the handler received last
    exc,         \* str(e) of the exception held by the inner except clause
    words,       \* len(result.answer.split()) of the current message
    tok,         \* tokens sent so far for the current message
    hist,        \* messages: the history the handler read for the current message
    appState,    \* server side of each websocket: connecting / connected / disconnected
    closeCode,   \* code of the close frame the server sent (0: none)
    clientOpen,  \* the client end of the websocket is still there
    log,         \* per websocket: the events send_text accepted, in order
    nframes,     \* frames received on all connections together
    nfaults,     \* failures and client disconnects so far
    closedInFlight,    \* the client went away while process_query was in flight
    redis,       \* Redis lists: session id -> list of serialized messages
    ttl,         \* Redis expiry per key: seconds left (0: no expiry set or no key)
    age,         \* per key: seconds since the last message was pushed to its list
    appended,    \* per session: the messages appended since the key was last absent
    nappend,     \* add_message calls made (SpecStore)
    got,         \* the last get_messages call: key, limit, the log appended before it,
                 \* whether the Redis call failed, the outcome and the messages returned
    ncalls,      \* ConnectionManager calls made (SpecManager)
    lastCall,    \* the last call of the API under test and its outcome
    rpc,         \* position of the process_query run
    question,    \* process_query's question argument
    chat_history,  \* process_query's chat_history argument
    sub,         \* the two sub-calls of aforward: state, arguments, output
    search_query,  \* what aforward returned
    searched,    \* the last search call: corpus, k, threshold, failure, result
    nsearch,     \* search calls made in the run
    generated,   \* the arguments of the generate_answer call, its outcome
    result,      \* the RAGResult process_query returned
    stages,      \* the stages the process_query run has invoked, in order
    answer,      \* the text handed to the token loop
    emitted,     \* the contents of the token events the loop has sent, in order
    wrun,        \* WSManager: position of the _run task
    wconn,       \* WSManager: the websocket of the current round (none / open / closed)
    reader,      \* WSManager: the _reader task
    writer,      \* WSManager: the _writer task
    holding,     \* WSManager: data, the payload the writer took from the queue
    send_q,      \* WSManager: _send_q
    stopped,     \* WSManager: _stopped
    delivered,   \* the payloads the backend received, in order
    nqueued,     \* payloads passed to send so far
    ncloses,     \* connections the server has closed so far
    nconnects,   \* connections the manager has opened so far
    checked_out, \* connections taken from the pool and not returned
    inflight,    \* requests being served
    nrequests    \* requests begun so far

wsVars == <<active, pc, sid, nrecv, frame, exc, words, tok, hist, appState, closeCode,
            clientOpen, closedInFlight, log, nframes, nfaults>>
storeVars == <<redis, ttl, age, appended, nappend, got>>
apiVars == <<ncalls, lastCall>>
ragVars == <<rpc, question, chat_history, sub, search_query, searched, nsearch, generated,
             result, stages>>
tokVars == <<answer, emitted>>
wsmVars == <<wrun, wconn, reader, writer, holding, send_q, stopped, delivered, nqueued,
             ncloses, nconnects>>
poolVars == <<checked_out, inflight, nrequests>>
vars == <<wsVars, storeVars, apiVars, ragVars, tokVars, wsmVars, poolVars>>

\* ---------------------------------------------------------- configuration
redis_ttl == 3600          \* settings.redis_ttl, in seconds
chat_history_limit == 20   \* settings.chat_history_limit

\* ------------------------------------------------------------- ChatMessage
\* model_dump_json: the message as JSON text (here: the tuple of its fields)
model_dump_json(m) == <<m.id, m.role, m.content>>

\* json.loads + ChatMessage.model_validate
model_validate(raw) == [id |-> raw[1], role |-> raw[2], content |-> raw[3]]

ChatMessage(id, role, content) == [id |-> id, role |-> role, content |-> content]

Min(a, b) == IF a <= b THEN a ELSE b

\* ---------------------------------------------------------- Redis commands
\* mutant of rpush: RPUSHX, which pushes only when the key exists
rpushx(list, v) == IF list = << >> THEN list ELSE Append(list, v)

\* RPUSH key value
rpush(list, v) == Append(list, v)

\* LRANGE key start stop: negative indexes count from the tail, out-of-range
\* indexes are clamped, an empty range gives the empty list (0-based, inclusive)
lrange(list, start, stop) ==
    LET n == Len(list)
        s0 == IF start < 0 THEN n + start ELSE start
        e0 == IF stop < 0 THEN n + stop ELSE stop
        s == IF s0 < 0 THEN 0 ELSE s0
        e == IF e0 >= n THEN n - 1 ELSE e0
    IN  IF s > e \/ s >= n THEN << >> ELSE SubSeq(list, s + 1, e + 1)

\* ------------------------------------------------------- websocket transport
InternalErrorCode == 1011

\* WSMessage(type=..., content=...), tagged with the handler and the message
\* it was produced for; i is the index of a token's word (0 otherwise)
WSMessage(c, type, content, i) ==
    [type |-> type, by |-> c, n |-> nrecv[c], content |-> content, i |-> i]

ErrorPrefix == "An error occurred while processing your request: "

\* error_content = f"An error occurred while processing your request: {str(e)}"
error_content(e) == <<ErrorPrefix, e>>

\* WebSocket.send_text on websocket w, the outcomes it can have: after the
\* server's close frame it raises; to a client that is there the frame is sent;
\* to a client that has gone the server either raises or takes the frame and
\* loses it
send_text(w) ==
    IF appState[w] # "connected" THEN {"raise"}
    ELSE IF clientOpen[w] THEN {"sent"}
    ELSE {"sent", "raise"}

\* mutant of close: the close reaches every websocket
close_all(w) == [x \in Conns |-> "disconnected"]

\* WebSocket.close(code): the server side of w is closed from now on
close(w) == [appState EXCEPT ![w] = "disconnected"]

\* -------------------------------------------------------- ConnectionManager
\* connect: self.active_connections[session_id] = websocket
connect(s, w) == [active EXCEPT ![s] = w]

\* disconnect: del self.active_connections[session_id] when the key is there
disconnect(s) == IF active[s] # NoConn THEN [active EXCEPT ![s] = NoConn] ELSE active

\* mutant of send_message: no test of the key, a missing key raises
send_message_unguarded(s) == IF active[s] = NoConn THEN {"raise"} ELSE send_text(active[s])

\* send_message: outcomes of sending to session key s; "noop" when the key is
\* not registered, otherwise what send_text does on the registered websocket
send_message(s) == IF active[s] = NoConn THEN {"noop"} ELSE send_text(active[s])

\* the log after send_message(s, ev) ended with outcome out
Delivered(s, ev, out) ==
    IF out = "sent" THEN [log EXCEPT ![active[s]] = Append(@, ev)] ELSE log

\* ------------------------------------------------------------ token loop
Chars == {"a", "b", " ", "\n"}

\* what str.split() with no argument splits on
Whitespace == {" ", "\n"}

\* the answers: texts of up to MaxText characters
Texts == UNION {[1..n -> Chars] : n \in 0..MaxText}

NoAnswer == <<"none">>

\* the writer of WSManager holds no payload
NoData == 0

RECURSIVE split_from(_, _, _)
\* str.split() scanning text with the word cur begun and the words acc done:
\* a run of whitespace ends a word, empty words are not kept
split_from(text, cur, acc) ==
    IF text = << >> THEN (IF cur = << >> THEN acc ELSE Append(acc, cur))
    ELSE IF Head(text) \in Whitespace
         THEN split_from(Tail(text), << >>, IF cur = << >> THEN acc ELSE Append(acc, cur))
         ELSE split_from(Tail(text), Append(cur, Head(text)), acc)

\* words = result.answer.split()
split(text) == split_from(text, << >>, << >>)

\* mutant of token: the space after the word
token_space_after(i, word) == word \o <<" ">>

\* token = word if i == 0 else f" {word}"   (i counts from 0)
token(i, word) == IF i = 0 THEN word ELSE <<" ">> \o word

\* mutant of awaiting_receive: the next frame is taken while a message is
\* being processed
awaiting_receive_any(c) == pc[c] \notin {"idle", "done"}

\* the handler is at data = await websocket.receive_text()
awaiting_receive(c) == pc[c] = "receive"

\* ---------------------------------------------- RedisChatMessageHistory
\* add_message: rpush then expire; either Redis call can fail
add_message_outcomes == {"ok", "rpush_fails", "expire_fails"}

\* the list of key s after add_message(s, m) ended with outcome out
add_message_list(s, m, out) ==
    IF out = "rpush_fails" THEN redis[s] ELSE rpush(redis[s], model_dump_json(m))

\* the expiry of key s after add_message ended with outcome out
add_message_ttl(s, out) == IF out = "ok" THEN redis_ttl ELSE ttl[s]

\* the age of key s after add_message ended with outcome out: a push restarts it
add_message_age(s, out) == IF out = "rpush_fails" THEN age[s] ELSE 0

\* mutant of get_messages: the range is taken from the head of the list
get_messages_head(s, limit) ==
    LET raw == lrange(redis[s], 0, limit - 1)
    IN  [i \in 1..Len(raw) |-> model_validate(raw[i])]

\* get_messages(session_id, limit): lrange(key, -limit, -1), each entry parsed
get_messages(s, limit) ==
    LET raw == lrange(redis[s], -limit, -1)
    IN  [i \in 1..Len(raw) |-> model_validate(raw[i])]

\* mutant of clear: the list is trimmed to its first entry instead of deleted
clear_trim(s) == [redis EXCEPT ![s] = lrange(@, 0, 0)]

\* clear(session_id): delete(key)
clear(s) == [redis EXCEPT ![s] = << >>]

\* ------------------------------------------------- QueryUnderstandingEngine
\* texts are sequences of pieces, so that concatenation is \o
Questions == {<<"q1">>, <<"q2">>}
Histories == {"", "  ", "user: hi"}       \* empty, whitespace only, one turn
KeywordTexts == {"k1", "k2"}
HydeTexts == {"a1", "a2"}
Subs == {"extract_keywords", "generate_hyde"}
NotCalled == [st |-> "idle", question |-> << >>, chat_history |-> "", out |-> "none"]
NoQuery == <<"none">>
NoGenerate == [st |-> "idle", question |-> << >>, chat_history |-> "", context |-> << >>]
NoResult == [answer |-> "none", retrieved_docs |-> << >>, search_query |-> NoQuery]
Outputs(x) == IF x = "extract_keywords" THEN KeywordTexts ELSE HydeTexts

\* mutant of strip: nothing is stripped
strip_nothing(h) == h

\* str.strip()
strip(h) == IF h = "  " THEN "" ELSE h

\* the f-string of final_search_query
final_search_query(q, keywords, hypothetical_answer) ==
    q \o <<" | Relevant concepts: ", keywords, " | ",
           "Potential answer context: ", hypothetical_answer>>

\* mutant of asyncio_gather: the first completed sub-call ends the wait
gather_first_completed(s) ==
    IF \E x \in Subs : s[x].st = "failed" THEN "raise"
    ELSE IF \E x \in Subs : s[x].st = "done" THEN "return"
    ELSE "pending"

\* mutant of asyncio_gather: return_exceptions=True
gather_return_exceptions(s) ==
    IF \A x \in Subs : s[x].st \in {"done", "failed"} THEN "return" ELSE "pending"

\* await asyncio.gather(a, b): raises the first exception of a sub-call as
\* soon as there is one, returns when all sub-calls have returned
asyncio_gather(s) ==
    IF \E x \in Subs : s[x].st = "failed" THEN "raise"
    ELSE IF \A x \in Subs : s[x].st = "done" THEN "return"
    ELSE "pending"

\* ------------------------------------------------------------- HyDESearch
Sims == 0..MaxSim
retrieval_similarity_threshold == 1       \* settings: 0.3, on the scale of Sims
rag_k == 3                                \* settings.rag_k

\* the documents table for one query, as ORDER BY embedding <=> query ranks
\* it: the similarities of its rows, non-increasing
RankedCorpora ==
    {c \in UNION {[1..n -> Sims] : n \in 0..MaxDocs} :
        \A i \in 1..Len(c), j \in 1..Len(c) : i < j => c[i] >= c[j]}

\* mutant of execute_query: ORDER BY ... DESC, the farthest rows first
execute_query_farthest_first(corpus, limit) ==
    [i \in 1..Min(limit, Len(corpus)) |->
        [id |-> Len(corpus) + 1 - i, similarity |-> corpus[Len(corpus) + 1 - i]]]

\* SELECT ... ORDER BY embedding <=> query LIMIT limit
execute_query(corpus, limit) ==
    [i \in 1..Min(limit, Len(corpus)) |-> [id |-> i, similarity |-> corpus[i]]]

\* mutant of search: the filtered candidates are not cut to k
search_no_cut(corpus, k, threshold, fails) ==
    IF fails THEN << >>
    ELSE SelectSeq(execute_query(corpus, k * 2), LAMBDA row : row.similarity > threshold)

\* mutant of search: the first k rows, with no filter
search_unfiltered(corpus, k, threshold, fails) ==
    IF fails THEN << >>
    ELSE execute_query(corpus, k)

\* HyDESearch.search: 2*k candidates, those with similarity > threshold, the
\* first k of them; the empty list when the embedding or the query fails
search(corpus, k, threshold, fails) ==
    IF fails THEN << >>
    ELSE LET results == execute_query(corpus, k * 2)
             filtered == SelectSeq(results, LAMBDA row : row.similarity > threshold)
         IN  SubSeq(filtered, 1, Min(k, Len(filtered)))

\* ------------------------------------------------------ websocket_endpoint
\* the handler leaves through one of the outer except clauses: both call
\* manager.disconnect(session_id)
OuterExcept(c) ==
    /\ active' = disconnect(sid[c])
    /\ pc' = [pc EXCEPT ![c] = "done"]

\* a send inside the inner try: on an exception control goes to the inner
\* except clause, otherwise to nextpc
InnerSend(c, ev, nextpc) ==
    \E out \in send_message(sid[c]) :
        /\ log' = Delivered(sid[c], ev, out)
        /\ IF out = "raise"
           THEN /\ pc' = [pc EXCEPT ![c] = "send_error"]
                /\ exc' = [exc EXCEPT ![c] = TransportText]
           ELSE /\ pc' = [pc EXCEPT ![c] = nextpc]
                /\ exc' = exc

\* WebSocket.accept()
accept(w) == [appState EXCEPT ![w] = "connected"]

\* await manager.connect(session_id, websocket), then the dependencies, for a
\* connection that came with session id s
ConnectAs(c, s) ==
    /\ pc[c] = "idle"
    /\ sid' = [sid EXCEPT ![c] = s]
    /\ active' = connect(s, c)
    /\ appState' = accept(c)
    /\ clientOpen' = [clientOpen EXCEPT ![c] = TRUE]
    /\ pc' = [pc EXCEPT ![c] = "receive"]
    /\ UNCHANGED <<nrecv, frame, hist, exc, words, tok, closeCode, closedInFlight, log, nframes,
                   nfaults, storeVars, apiVars, ragVars, tokVars, wsmVars, poolVars>>

\* a client opens /ws/{session_id}
Connect(c) == \E s \in SessionsOf(c) : ConnectAs(c, s)

\* a client opens /ws/{session_id} with a session id no other connection uses
ConnectOwn(c) == ConnectAs(c, OwnSession(c))

\* the client goes away
ClientClose(c) ==
    /\ pc[c] \notin {"idle", "done"}
    /\ clientOpen[c]
    /\ nfaults < MaxFaults
    /\ nfaults' = nfaults + 1
    /\ clientOpen' = [clientOpen EXCEPT ![c] = FALSE]
    /\ closedInFlight' = [closedInFlight EXCEPT ![c] = (pc[c] = "process_query")]
    /\ UNCHANGED <<active, pc, sid, nrecv, frame, hist, exc, words, tok, appState, closeCode,
                   log, nframes, storeVars, apiVars, ragVars, tokVars, wsmVars, poolVars>>

\* data = await websocket.receive_text(): WebSocketDisconnect when the client
\* has gone
ReceiveDisconnect(c) ==
    /\ pc[c] = "receive"
    /\ ~clientOpen[c]
    /\ OuterExcept(c)
    /\ UNCHANGED <<sid, nrecv, frame, hist, exc, words, tok, appState, closeCode, clientOpen, closedInFlight,
                   log, nframes, nfaults, storeVars, apiVars, ragVars, tokVars, wsmVars, poolVars>>

\* receive_text, json.loads, message_data.get("message", ""), the test of
\* user_message
Receive(c) ==
    /\ awaiting_receive(c)
    /\ clientOpen[c]
    /\ nframes < MaxFrames
    /\ nframes' = nframes + 1
    /\ \E f \in Frames :
        /\ frame' = [frame EXCEPT ![c] = f]
        /\ nrecv' = [nrecv EXCEPT ![c] = @ + 1]
        /\ IF f \in Unparseable
           THEN OuterExcept(c)                       \* json.loads or .get raises
           ELSE /\ active' = active
                /\ pc' = [pc EXCEPT ![c] = IF f = "empty" THEN "receive" ELSE "send_start"]
    /\ UNCHANGED <<sid, exc, words, tok, hist, appState, closeCode, clientOpen, closedInFlight,
                   log, nfaults, storeVars, apiVars, ragVars, tokVars, wsmVars, poolVars>>

\* the start event, sent before the inner try
SendStart(c) ==
    /\ pc[c] = "send_start"
    /\ \E out \in send_message(sid[c]) :
        /\ log' = Delivered(sid[c], WSMessage(c, "start", <<"Processing...">>, 0), out)
        /\ IF out = "raise"
           THEN OuterExcept(c)
           ELSE /\ active' = active
                /\ pc' = [pc EXCEPT ![c] = "get_history"]
    /\ UNCHANGED <<sid, nrecv, frame, hist, exc, words, tok, appState, closeCode, clientOpen, closedInFlight,
                   nframes, nfaults, storeVars, apiVars, ragVars, tokVars, wsmVars, poolVars>>

\* messages = await history_manager.get_messages(limit=...)
GetHistory(c) ==
    /\ pc[c] = "get_history"
    /\ \/ /\ pc' = [pc EXCEPT ![c] = "send_step1"]
          /\ hist' = [hist EXCEPT ![c] = get_messages(sid[c], chat_history_limit)]
          /\ exc' = exc
          /\ nfaults' = nfaults
       \/ /\ nfaults < MaxFaults
          /\ nfaults' = nfaults + 1
          /\ pc' = [pc EXCEPT ![c] = "send_error"]
          /\ exc' = [exc EXCEPT ![c] = StoreText]
          /\ hist' = hist
    /\ UNCHANGED <<active, sid, nrecv, frame, words, tok, appState, closeCode, clientOpen, closedInFlight,
                   log, nframes, storeVars, apiVars, ragVars, tokVars, wsmVars, poolVars>>

\* step "query_understanding"
SendStep1(c) ==
    /\ pc[c] = "send_step1"
    /\ InnerSend(c, WSMessage(c, "step", <<"query_understanding">>, 0), "process_query")
    /\ UNCHANGED <<active, sid, nrecv, frame, hist, words, tok, appState, closeCode, clientOpen, closedInFlight,
                   nframes, nfaults, storeVars, apiVars, ragVars, tokVars, wsmVars, poolVars>>

\* result = await rag_service.process_query(...)
ProcessQuery(c) ==
    /\ pc[c] = "process_query"
    /\ \/ \E n \in 0..MaxWords :
          /\ words' = [words EXCEPT ![c] = n]
          /\ pc' = [pc EXCEPT ![c] = "send_step2"]
          /\ exc' = exc
          /\ nfaults' = nfaults
       \/ \E e \in ExcTexts :
          /\ nfaults < MaxFaults
          /\ nfaults' = nfaults + 1
          /\ pc' = [pc EXCEPT ![c] = "send_error"]
          /\ exc' = [exc EXCEPT ![c] = e]
          /\ words' = words
    /\ tok' = [tok EXCEPT ![c] = 0]
    /\ UNCHANGED <<active, sid, nrecv, frame, hist, appState, closeCode, clientOpen, closedInFlight, log,
                   nframes, storeVars, apiVars, ragVars, tokVars, wsmVars, poolVars>>

\* step "retrieval"
SendStep2(c) ==
    /\ pc[c] = "send_step2"
    /\ InnerSend(c, WSMessage(c, "step", <<"retrieval">>, 0), "send_step3")
    /\ UNCHANGED <<active, sid, nrecv, frame, hist, words, tok, appState, closeCode, clientOpen, closedInFlight,
                   nframes, nfaults, storeVars, apiVars, ragVars, tokVars, wsmVars, poolVars>>

\* step "generation"; then words = result.answer.split() and the token loop
SendStep3(c) ==
    /\ pc[c] = "send_step3"
    /\ InnerSend(c, WSMessage(c, "step", <<"generation">>, 0),
                 IF words[c] = 0 THEN "send_end" ELSE "send_token")
    /\ UNCHANGED <<active, sid, nrecv, frame, hist, words, tok, appState, closeCode, clientOpen, closedInFlight,
                   nframes, nfaults, storeVars, apiVars, ragVars, tokVars, wsmVars, poolVars>>

\* one turn of: for i, word in enumerate(words): send a token event
SendToken(c) ==
    /\ pc[c] = "send_token"
    /\ InnerSend(c, WSMessage(c, "token", <<"word">>, tok[c] + 1),
                 IF tok[c] + 1 = words[c] THEN "send_end" ELSE "send_token")
    /\ tok' = [tok EXCEPT ![c] = IF pc'[c] = "send_error" THEN @ ELSE @ + 1]
    /\ UNCHANGED <<active, sid, nrecv, frame, hist, words, appState, closeCode, clientOpen, closedInFlight,
                   nframes, nfaults, storeVars, apiVars, ragVars, tokVars, wsmVars, poolVars>>

\* the end event
SendEnd(c) ==
    /\ pc[c] = "send_end"
    /\ InnerSend(c, WSMessage(c, "end", <<"result">>, 0), "add_user")
    /\ UNCHANGED <<active, sid, nrecv, frame, hist, words, tok, appState, closeCode, clientOpen, closedInFlight,
                   nframes, nfaults, storeVars, apiVars, ragVars, tokVars, wsmVars, poolVars>>

\* await history_manager.add_message(ChatMessage(role=..., ...)) inside the
\* inner try
AddMessage(c, role, nextpc) ==
    \E out \in add_message_outcomes :
        /\ redis' = [redis EXCEPT ![sid[c]] =
                        add_message_list(sid[c], ChatMessage(<<c, nrecv[c]>>, role, "text"), out)]
        /\ ttl' = [ttl EXCEPT ![sid[c]] = add_message_ttl(sid[c], out)]
        /\ age' = [age EXCEPT ![sid[c]] = add_message_age(sid[c], out)]
        /\ IF out = "ok"
           THEN /\ pc' = [pc EXCEPT ![c] = nextpc]
                /\ exc' = exc
                /\ nfaults' = nfaults
           ELSE /\ nfaults < MaxFaults
                /\ nfaults' = nfaults + 1
                /\ pc' = [pc EXCEPT ![c] = "send_error"]
                /\ exc' = [exc EXCEPT ![c] = StoreText]

\* the user message is appended
AddUser(c) ==
    /\ pc[c] = "add_user"
    /\ AddMessage(c, "user", "add_assistant")
    /\ UNCHANGED <<active, sid, nrecv, frame, hist, words, tok, appState, closeCode, clientOpen, closedInFlight,
                   log, nframes, appended, nappend, got, apiVars, ragVars, tokVars, wsmVars, poolVars>>

\* the assistant message is appended; the loop goes back to receive_text
AddAssistant(c) ==
    /\ pc[c] = "add_assistant"
    /\ AddMessage(c, "assistant", "receive")
    /\ UNCHANGED <<active, sid, nrecv, frame, hist, words, tok, appState, closeCode, clientOpen, closedInFlight,
                   log, nframes, appended, nappend, got, apiVars, ragVars, tokVars, wsmVars, poolVars>>

\* inner except: the error event
SendError(c) ==
    /\ pc[c] = "send_error"
    /\ \E out \in send_message(sid[c]) :
        /\ log' = Delivered(sid[c], WSMessage(c, "error", error_content(exc[c]), 0), out)
        /\ IF out = "raise"
           THEN OuterExcept(c)
           ELSE /\ active' = active
                /\ pc' = [pc EXCEPT ![c] = "close"]
    /\ UNCHANGED <<sid, nrecv, frame, hist, exc, words, tok, appState, closeCode, clientOpen, closedInFlight,
                   nframes, nfaults, storeVars, apiVars, ragVars, tokVars, wsmVars, poolVars>>

\* await websocket.close(code=1011, ...), then break; the close frame can
\* fail to be written when the client has gone
Close(c) ==
    /\ pc[c] = "close"
    /\ appState' = close(c)
    /\ closeCode' = [closeCode EXCEPT ![c] = InternalErrorCode]
    /\ \/ /\ active' = active
          /\ pc' = [pc EXCEPT ![c] = "done"]
       \/ /\ ~clientOpen[c]
          /\ OuterExcept(c)
    /\ UNCHANGED <<sid, nrecv, frame, hist, exc, words, tok, clientOpen, closedInFlight, log, nframes,
                   nfaults, storeVars, apiVars, ragVars, tokVars, wsmVars, poolVars>>

\* the steps of a connected handler
Handler(c) ==
    \/ ReceiveDisconnect(c) \/ Receive(c) \/ SendStart(c) \/ GetHistory(c)
    \/ SendStep1(c) \/ ProcessQuery(c) \/ SendStep2(c) \/ SendStep3(c) \/ SendToken(c)
    \/ SendEnd(c) \/ AddUser(c) \/ AddAssistant(c) \/ SendError(c) \/ Close(c)

Init ==
    /\ active = [s \in Sessions |-> NoConn]
    /\ pc = [c \in Conns |-> "idle"]
    /\ sid = [c \in Conns |-> "none"]
    /\ nrecv = [c \in Conns |-> 0]
    /\ frame = [c \in Conns |-> "none"]
    /\ exc = [c \in Conns |-> "none"]
    /\ words = [c \in Conns |-> 0]
    /\ tok = [c \in Conns |-> 0]
    /\ hist = [c \in Conns |-> << >>]
    /\ appState = [c \in Conns |-> "connecting"]
    /\ closeCode = [c \in Conns |-> 0]
    /\ clientOpen = [c \in Conns |-> FALSE]
    /\ closedInFlight = [c \in Conns |-> FALSE]
    /\ log = [c \in Conns |-> << >>]
    /\ nframes = 0
    /\ nfaults = 0
    /\ redis = [s \in Sessions |-> << >>]
    /\ ttl = [s \in Sessions |-> 0]
    /\ age = [s \in Sessions |-> 0]
    /\ appended = [s \in Sessions |-> << >>]
    /\ nappend = 0
    /\ got = [s |-> "none", limit |-> 0, log |-> << >>, msgs |-> << >>,
              failed |-> FALSE, out |-> "none"]
    /\ ncalls = 0
    /\ lastCall = [op |-> "none", key |-> "none", out |-> "none"]
    /\ rpc = "idle"
    /\ question = << >>
    /\ chat_history = ""
    /\ sub = [x \in Subs |-> NotCalled]
    /\ search_query = NoQuery
    /\ searched = [corpus |-> << >>, k |-> 0, threshold |-> 0, fails |-> FALSE, docs |-> << >>]
    /\ nsearch = 0
    /\ generated = NoGenerate
    /\ result = NoResult
    /\ stages = << >>
    /\ answer = NoAnswer
    /\ emitted = << >>
    /\ wrun = "off"
    /\ wconn = "none"
    /\ reader = "none"
    /\ writer = "none"
    /\ holding = NoData
    /\ send_q = << >>
    /\ stopped = FALSE
    /\ delivered = << >>
    /\ nqueued = 0
    /\ ncloses = 0
    /\ nconnects = 0
    /\ checked_out = 0
    /\ inflight = 0
    /\ nrequests = 0

Next == \E c \in Conns : Connect(c) \/ Handler(c) \/ ClientClose(c)

\* the endpoint serving connections that may share a session id
Spec == Init /\ [][Next]_vars

NextOwn == \E c \in Conns : ConnectOwn(c) \/ Handler(c) \/ ClientClose(c)

\* the endpoint serving connections that each have their own session id
SpecOwn == Init /\ [][NextOwn]_vars

\* ------------------------------------------- ConnectionManager as an API
ApiTypes == {"start", "token", "error"}

\* manager.connect(session_id, websocket) for a websocket not yet accepted
MgrConnect(s, w) ==
    /\ ncalls < MaxCalls
    /\ appState[w] = "connecting"
    /\ active' = connect(s, w)
    /\ appState' = accept(w)
    /\ clientOpen' = [clientOpen EXCEPT ![w] = TRUE]
    /\ ncalls' = ncalls + 1
    /\ lastCall' = [op |-> "connect", key |-> s, out |-> "ok"]
    /\ UNCHANGED <<pc, sid, nrecv, frame, hist, exc, words, tok, closeCode, closedInFlight, log,
                   nframes, nfaults, storeVars, ragVars, tokVars, wsmVars, poolVars>>

\* manager.disconnect(session_id)
MgrDisconnect(s) ==
    /\ ncalls < MaxCalls
    /\ active' = disconnect(s)
    /\ ncalls' = ncalls + 1
    /\ lastCall' = [op |-> "disconnect", key |-> s, out |-> "ok"]
    /\ UNCHANGED <<pc, sid, nrecv, frame, hist, exc, words, tok, appState, closeCode, clientOpen,
                   closedInFlight, log, nframes, nfaults, storeVars, ragVars, tokVars, wsmVars, poolVars>>

\* await manager.send_message(session_id, WSMessage(type=t, ...))
MgrSend(s, t) ==
    /\ ncalls < MaxCalls
    /\ \E out \in send_message(s) :
        /\ log' = Delivered(s, [type |-> t, by |-> "api", n |-> 0,
                                content |-> <<"text">>, i |-> 0], out)
        /\ lastCall' = [op |-> "send", key |-> s, out |-> out]
    /\ ncalls' = ncalls + 1
    /\ UNCHANGED <<active, pc, sid, nrecv, frame, hist, exc, words, tok, appState, closeCode,
                   clientOpen, closedInFlight, nframes, nfaults, storeVars, ragVars, tokVars, wsmVars, poolVars>>

\* the client of websocket w goes away
MgrClientClose(w) ==
    /\ clientOpen[w]
    /\ clientOpen' = [clientOpen EXCEPT ![w] = FALSE]
    /\ UNCHANGED <<active, pc, sid, nrecv, frame, hist, exc, words, tok, appState, closeCode,
                   closedInFlight, log, nframes, nfaults, storeVars, apiVars, ragVars, tokVars, wsmVars, poolVars>>

NextManager ==
    \/ \E s \in Sessions, w \in Conns : MgrConnect(s, w)
    \/ \E s \in Sessions : MgrDisconnect(s)
    \/ \E s \in Sessions, t \in ApiTypes : MgrSend(s, t)
    \/ \E w \in Conns : MgrClientClose(w)

SpecManager == Init /\ [][NextManager]_vars

\* -------------------------------------- RedisChatMessageHistory as an API
\* await history.add_message(session_id, ChatMessage(role=role, ...))
StoreAdd(s, role) ==
    /\ nappend < MaxAppends
    /\ nappend' = nappend + 1
    /\ \E out \in add_message_outcomes :
        LET m == ChatMessage(nappend + 1, role, "text")
        IN  /\ redis' = [redis EXCEPT ![s] = add_message_list(s, m, out)]
            /\ ttl' = [ttl EXCEPT ![s] = add_message_ttl(s, out)]
            /\ age' = [age EXCEPT ![s] = add_message_age(s, out)]
            /\ appended' = IF out = "rpush_fails" THEN appended
                           ELSE [appended EXCEPT ![s] = Append(@, m)]
            /\ lastCall' = [op |-> "add", key |-> s, out |-> out]
    /\ UNCHANGED <<got, wsVars, ncalls, ragVars, tokVars, wsmVars, poolVars>>

\* await history.get_messages(session_id, limit)
StoreGet(s, limit) ==
    /\ got' = [s |-> s, limit |-> limit, log |-> appended[s], msgs |-> get_messages(s, limit),
               failed |-> FALSE, out |-> "ok"]
    /\ lastCall' = [op |-> "get", key |-> s, out |-> "ok"]
    /\ UNCHANGED <<redis, ttl, age, appended, nappend, wsVars, ncalls, ragVars, tokVars, wsmVars, poolVars>>

\* await history.clear(session_id)
StoreClear(s) ==
    /\ redis' = clear(s)
    /\ ttl' = [ttl EXCEPT ![s] = 0]
    /\ age' = [age EXCEPT ![s] = 0]
    /\ appended' = [appended EXCEPT ![s] = << >>]
    /\ lastCall' = [op |-> "clear", key |-> s, out |-> "ok"]
    /\ UNCHANGED <<nappend, got, wsVars, ncalls, ragVars, tokVars, wsmVars, poolVars>>

\* the time spans the clock can advance by in one step: half a TTL, a whole TTL
Elapse == {redis_ttl \div 2, redis_ttl}

\* key s has an expiry that runs out within the next d seconds
Expires(s, d) == ttl[s] > 0 /\ ttl[s] <= d

\* d seconds pass: Redis counts the expiry of every key with one down and
\* deletes the keys whose expiry has run out
Tick(d) ==
    /\ \E s \in Sessions : ttl[s] > 0
    /\ ttl' = [s \in Sessions |-> IF ttl[s] > d THEN ttl[s] - d ELSE 0]
    /\ redis' = [s \in Sessions |-> IF Expires(s, d) THEN << >> ELSE redis[s]]
    /\ appended' = [s \in Sessions |-> IF Expires(s, d) THEN << >> ELSE appended[s]]
    /\ age' = [s \in Sessions |-> IF Expires(s, d) \/ redis[s] = << >> THEN 0 ELSE age[s] + d]
    /\ UNCHANGED <<nappend, got, wsVars, apiVars, ragVars, tokVars, wsmVars, poolVars>>

NextStore ==
    \/ \E s \in Sessions, role \in Roles : StoreAdd(s, role)
    \/ \E s \in Sessions, limit \in 0..MaxLimit : StoreGet(s, limit)
    \/ \E s \in Sessions : StoreClear(s)
    \/ \E d \in Elapse : Tick(d)

SpecStore == Init /\ [][NextStore]_vars

NextExpiry ==
    \/ \E c \in {"c1"} : ConnectOwn(c) \/ Handler(c) \/ ClientClose(c)
    \/ \E d \in Elapse : Tick(d)

\* the endpoint serving one connection, while time passes and Redis expires
\* the keys
SpecExpiry == Init /\ [][NextExpiry]_vars

\* ------------------------------------------- ChatCache over RedisDatabase
\* LPUSH key value
lpush(list, v) == <<v>> \o list

\* RedisDatabase.lrange: an exception of the Redis call is logged and the
\* empty list is returned
RedisDatabase_lrange(list, start, end, fails) ==
    IF fails THEN << >> ELSE lrange(list, start, end)

\* ChatCache.get_messages: redis_db.lrange(key, -limit, -1), each entry parsed
ChatCache_get_messages(s, limit, fails) ==
    LET raw == RedisDatabase_lrange(redis[s], -limit, -1, fails)
    IN  [i \in 1..Len(raw) |-> model_validate(raw[i])]

\* await chat_cache.add_message(session_id, message): RedisDatabase.lpush
\* then RedisDatabase.expire, each re-raising the exception of its Redis call
CacheAdd(s, role) ==
    /\ nappend < MaxAppends
    /\ nappend' = nappend + 1
    /\ \E out \in {"ok", "lpush_fails", "expire_fails"} :
        LET m == ChatMessage(nappend + 1, role, "text")
        IN  /\ redis' = [redis EXCEPT ![s] =
                            IF out = "lpush_fails" THEN @ ELSE lpush(@, model_dump_json(m))]
            /\ ttl' = [ttl EXCEPT ![s] = IF out = "ok" THEN redis_ttl ELSE @]
            /\ age' = [age EXCEPT ![s] = IF out = "lpush_fails" THEN @ ELSE 0]
            /\ appended' = IF out = "lpush_fails" THEN appended
                           ELSE [appended EXCEPT ![s] = Append(@, m)]
    /\ UNCHANGED <<got, wsVars, apiVars, ragVars, tokVars, wsmVars, poolVars>>

\* await chat_cache.get_messages(session_id, limit), the Redis call failing or not
CacheGet(s, limit) ==
    /\ \E fails \in BOOLEAN :
        got' = [s |-> s, limit |-> limit, log |-> appended[s],
                msgs |-> ChatCache_get_messages(s, limit, fails),
                failed |-> fails, out |-> "ok"]
    /\ UNCHANGED <<redis, ttl, age, appended, nappend, wsVars, apiVars, ragVars, tokVars, wsmVars, poolVars>>

\* await chat_cache.clear(session_id)
CacheClear(s) ==
    /\ redis' = [redis EXCEPT ![s] = << >>]
    /\ ttl' = [ttl EXCEPT ![s] = 0]
    /\ age' = [age EXCEPT ![s] = 0]
    /\ appended' = [appended EXCEPT ![s] = << >>]
    /\ UNCHANGED <<nappend, got, wsVars, apiVars, ragVars, tokVars, wsmVars, poolVars>>

NextCache ==
    \/ \E s \in Sessions, role \in Roles : CacheAdd(s, role)
    \/ \E s \in Sessions, limit \in 1..MaxLimit : CacheGet(s, limit)
    \/ \E s \in Sessions : CacheClear(s)

SpecCache == Init /\ [][NextCache]_vars

\* --------------------------- RedisChatMessageHistory of chat_history.py
\* get_messages(limit) of the session-bound history: lrange(key, 0, -1), the
\* limit parameter is not used
chat_history_get_messages(s, limit) ==
    LET raw == lrange(redis[s], 0, -1)
    IN  [i \in 1..Len(raw) |-> model_validate(raw[i])]

\* await history_manager.add_message(message): rpush then expire
HistoryAdd(s, role) ==
    /\ nappend < MaxAppends
    /\ nappend' = nappend + 1
    /\ \E out \in add_message_outcomes :
        LET m == ChatMessage(nappend + 1, role, "text")
        IN  /\ redis' = [redis EXCEPT ![s] = add_message_list(s, m, out)]
            /\ ttl' = [ttl EXCEPT ![s] = add_message_ttl(s, out)]
            /\ age' = [age EXCEPT ![s] = add_message_age(s, out)]
            /\ appended' = IF out = "rpush_fails" THEN appended
                           ELSE [appended EXCEPT ![s] = Append(@, m)]
    /\ UNCHANGED <<got, wsVars, apiVars, ragVars, tokVars, wsmVars, poolVars>>

\* messages = await history_manager.get_messages(limit=settings.chat_history_limit)
\* in main, the history manager of the user session s
HistoryGet(s, limit) ==
    /\ got' = [s |-> s, limit |-> limit, log |-> appended[s],
               msgs |-> chat_history_get_messages(s, limit),
               failed |-> FALSE, out |-> "ok"]
    /\ UNCHANGED <<redis, ttl, age, appended, nappend, wsVars, apiVars, ragVars, tokVars, wsmVars, poolVars>>

\* await history_manager.clear()
HistoryClear(s) ==
    /\ redis' = [redis EXCEPT ![s] = << >>]
    /\ ttl' = [ttl EXCEPT ![s] = 0]
    /\ age' = [age EXCEPT ![s] = 0]
    /\ appended' = [appended EXCEPT ![s] = << >>]
    /\ UNCHANGED <<nappend, got, wsVars, apiVars, ragVars, tokVars, wsmVars, poolVars>>

NextHistory ==
    \/ \E s \in Sessions, role \in Roles : HistoryAdd(s, role)
    \/ \E s \in Sessions, limit \in 1..MaxLimit : HistoryGet(s, limit)
    \/ \E s \in Sessions : HistoryClear(s)

SpecHistory == Init /\ [][NextHistory]_vars

\* ------------------------------------------------- RAGService.process_query
FallbackAnswer == "I couldn't find any information about that in my knowledge base."

\* mutant of no_context: the no-context return is never taken
no_context_never(docs) == FALSE

\* if not retrieved_docs:
no_context(docs) == docs = << >>

\* mutant of generate_question: the synthesized search string is passed
generate_search_query(q, sq) == sq

\* the question argument of generate_answer.acall: question=question
generate_question(q, sq) == q

\* mutant of on_failure: the failed stage is run again (bounded by MaxFaults)
retry(stage) == IF Len(stages) <= MaxFaults + 2 THEN stage ELSE "raised"

\* where the run goes when a stage raises: process_query has no try, the
\* exception leaves it
on_failure(stage) == "raised"

\* process_query(question, chat_history) is called
ProcessQueryCall(q, h) ==
    /\ rpc = "idle"
    /\ rpc' = "aforward"
    /\ question' = q
    /\ chat_history' = h
    /\ UNCHANGED <<sub, search_query, searched, nsearch, generated, result,
                   stages, wsVars, storeVars, apiVars, tokVars, wsmVars, poolVars>>

\* aforward on a first turn: if not chat_history.strip(): return question
AforwardFirstTurn ==
    /\ rpc = "aforward"
    /\ strip(chat_history) = ""
    /\ search_query' = question
    /\ rpc' = "search"
    /\ stages' = Append(stages, "aforward")
    /\ UNCHANGED <<question, chat_history, sub, searched, nsearch, generated, result,
                   wsVars, storeVars, apiVars, tokVars, wsmVars, poolVars>>

\* aforward on a later turn: both acall coroutines are created with the same
\* arguments and handed to asyncio.gather
AforwardGather ==
    /\ rpc = "aforward"
    /\ strip(chat_history) # ""
    /\ sub' = [x \in Subs |-> [st |-> "running", question |-> question,
                               chat_history |-> chat_history, out |-> "none"]]
    /\ rpc' = "gather"
    /\ stages' = Append(stages, "aforward")
    /\ UNCHANGED <<question, chat_history, search_query, searched, nsearch, generated,
                   result, wsVars, storeVars, apiVars, tokVars, wsmVars, poolVars>>

\* sub-call x returns its prediction
SubReturns(x) ==
    /\ sub[x].st = "running"
    /\ \E v \in Outputs(x) : sub' = [sub EXCEPT ![x].st = "done", ![x].out = v]
    /\ UNCHANGED <<rpc, question, chat_history, search_query, searched, nsearch, generated,
                   result, stages, wsVars, storeVars, apiVars, tokVars, wsmVars, poolVars>>

\* sub-call x raises
SubRaises(x) ==
    /\ sub[x].st = "running"
    /\ sub' = [sub EXCEPT ![x].st = "failed"]
    /\ UNCHANGED <<rpc, question, chat_history, search_query, searched, nsearch, generated,
                   result, stages, wsVars, storeVars, apiVars, tokVars, wsmVars, poolVars>>

\* the gather returns both predictions: aforward builds final_search_query
\* and returns it
GatherReturns ==
    /\ rpc = "gather"
    /\ asyncio_gather(sub) = "return"
    /\ search_query' = final_search_query(question, sub["extract_keywords"].out,
                                          sub["generate_hyde"].out)
    /\ rpc' = "search"
    /\ UNCHANGED <<question, chat_history, sub, searched, nsearch, generated, result,
                   stages, wsVars, storeVars, apiVars, tokVars, wsmVars, poolVars>>

\* the gather raises: neither aforward nor process_query catches, the
\* exception reaches process_query's caller
GatherRaises ==
    /\ rpc = "gather"
    /\ asyncio_gather(sub) = "raise"
    /\ rpc' = on_failure("aforward")
    /\ UNCHANGED <<question, chat_history, sub, search_query, searched, nsearch, generated,
                   result, stages, wsVars, storeVars, apiVars, tokVars, wsmVars, poolVars>>

\* retrieved_docs = await self.search_strategy.search(search_query, k=self.k),
\* then the no-context return
SearchIn(corpora) ==
    /\ rpc = "search"
    /\ nsearch' = nsearch + 1
    /\ \E corpus \in corpora, fails \in BOOLEAN :
        LET docs == search(corpus, rag_k, retrieval_similarity_threshold, fails)
        IN  /\ searched' = [corpus |-> corpus, k |-> rag_k,
                            threshold |-> retrieval_similarity_threshold,
                            fails |-> fails, docs |-> docs]
            /\ IF no_context(docs)
               THEN /\ result' = [answer |-> FallbackAnswer,
                                  retrieved_docs |-> << >>, search_query |-> search_query]
                    /\ rpc' = "returned"
               ELSE /\ result' = result
                    /\ rpc' = "generate"
    /\ stages' = Append(stages, "search")
    /\ UNCHANGED <<question, chat_history, sub, search_query, generated,
                   wsVars, storeVars, apiVars, tokVars, wsmVars, poolVars>>

Search == SearchIn(RankedCorpora)

\* prediction = await self.generate_answer.acall(context, question, chat_history),
\* then the RAGResult; the call can raise
Generate ==
    /\ rpc = "generate"
    /\ \E ok \in BOOLEAN :
        /\ generated' = [st |-> IF ok THEN "done" ELSE "failed",
                         question |-> generate_question(question, search_query),
                         chat_history |-> chat_history, context |-> searched.docs]
        /\ IF ok
           THEN /\ result' = [answer |-> "answer", retrieved_docs |-> searched.docs,
                              search_query |-> search_query]
                /\ rpc' = "returned"
           ELSE /\ result' = result
                /\ rpc' = on_failure("generate")
    /\ stages' = Append(stages, "generate")
    /\ UNCHANGED <<question, chat_history, sub, search_query, searched, nsearch,
                   wsVars, storeVars, apiVars, tokVars, wsmVars, poolVars>>

NextRag ==
    \/ \E q \in Questions, h \in Histories : ProcessQueryCall(q, h)
    \/ AforwardFirstTurn
    \/ AforwardGather
    \/ \E x \in Subs : SubReturns(x)
    \/ \E x \in Subs : SubRaises(x)
    \/ GatherReturns
    \/ GatherRaises
    \/ Search
    \/ Generate

\* one run of process_query
SpecRag == Init /\ [][NextRag]_vars

\* ------------------------------------- websocket_endpoint with the pipeline
\* mutant of formatted_history: the history is not passed on
formatted_history_blank(messages) == ""

\* formatted_history = "\n".join([f"{msg.role}: {msg.content}" for msg in messages]):
\* the empty text for no messages, otherwise lines that start with a role
formatted_history(messages) == IF messages = << >> THEN "" ELSE "user: hi"

\* result = await rag_service.process_query(question=user_message,
\* chat_history=formatted_history): the call
ProcessQueryStart(c) ==
    /\ pc[c] = "process_query"
    /\ rpc = "idle"
    /\ rpc' = "aforward"
    /\ \E q \in Questions : question' = q
    /\ chat_history' = formatted_history(hist[c])
    /\ sub' = [x \in Subs |-> NotCalled]
    /\ search_query' = NoQuery
    /\ searched' = [corpus |-> << >>, k |-> 0, threshold |-> 0, fails |-> FALSE, docs |-> << >>]
    /\ nsearch' = 0
    /\ generated' = NoGenerate
    /\ result' = NoResult
    /\ stages' = << >>
    /\ UNCHANGED <<wsVars, storeVars, apiVars, tokVars, wsmVars, poolVars>>

\* the call returns the RAGResult, or its exception reaches the inner except;
\* the locals of the run are gone
ProcessQueryEnd(c) ==
    /\ pc[c] = "process_query"
    /\ rpc \in {"returned", "raised"}
    /\ rpc' = "idle"
    /\ searched' = [corpus |-> << >>, k |-> 0, threshold |-> 0, fails |-> FALSE, docs |-> << >>]
    /\ generated' = NoGenerate
    /\ nsearch' = 0
    /\ stages' = << >>
    /\ IF rpc = "returned"
       THEN /\ \E n \in 0..MaxWords : words' = [words EXCEPT ![c] = n]
            /\ pc' = [pc EXCEPT ![c] = "send_step2"]
            /\ exc' = exc
       ELSE /\ words' = words
            /\ pc' = [pc EXCEPT ![c] = "send_error"]
            /\ \E e \in ExcTexts : exc' = [exc EXCEPT ![c] = e]
    /\ tok' = [tok EXCEPT ![c] = 0]
    /\ UNCHANGED <<active, sid, nrecv, frame, hist, appState, closeCode, clientOpen,
                   closedInFlight, log, nframes, nfaults, storeVars, apiVars,
                   question, chat_history, sub, search_query, result, tokVars, wsmVars, poolVars>>

\* the corpora of the runs a handler awaits: nothing, one document below the
\* threshold, one above it
TurnCorpora == {<< >>, <<retrieval_similarity_threshold>>, <<retrieval_similarity_threshold + 1>>}

\* the steps of process_query while a handler awaits it
ProcessQuerySteps ==
    /\ \E c \in Conns : pc[c] = "process_query"
    /\ \/ AforwardFirstTurn \/ AforwardGather
       \/ (\E x \in Subs : SubReturns(x)) \/ (\E x \in Subs : SubRaises(x))
       \/ GatherReturns \/ GatherRaises \/ SearchIn(TurnCorpora) \/ Generate

NextTurn ==
    \/ \E c \in {"c1"} :
          \/ ConnectOwn(c) \/ Receive(c) \/ SendStart(c) \/ GetHistory(c)
          \/ SendStep1(c) \/ ProcessQueryStart(c) \/ ProcessQueryEnd(c)
          \/ SendStep2(c) \/ SendStep3(c) \/ SendToken(c) \/ SendEnd(c)
          \/ AddUser(c) \/ AddAssistant(c) \/ SendError(c) \/ Close(c)
    \/ ProcessQuerySteps
    \/ \E d \in Elapse : Tick(d)

\* one connection's handler with the pipeline it calls, while Redis expires
\* the keys
SpecTurn == Init /\ [][NextTurn]_vars

\* await search(query, k, threshold) on a ranked corpus
SearchCall(corpus, k, threshold, fails) ==
    /\ searched.k = 0
    /\ searched' = [corpus |-> corpus, k |-> k, threshold |-> threshold, fails |-> fails,
                    docs |-> search(corpus, k, threshold, fails)]
    /\ UNCHANGED <<rpc, question, chat_history, sub, search_query, nsearch, generated,
                   result, stages, wsVars, storeVars, apiVars, tokVars, wsmVars, poolVars>>

NextSearch ==
    \E corpus \in RankedCorpora, k \in 1..MaxK, threshold \in Sims, fails \in BOOLEAN :
        SearchCall(corpus, k, threshold, fails)

\* the retriever used as a function
SpecSearch == Init /\ [][NextSearch]_vars

\* the token loop is entered with the answer text
SendTokensCall(text) ==
    /\ answer = NoAnswer
    /\ answer' = text
    /\ emitted' = << >>
    /\ UNCHANGED <<wsVars, storeVars, apiVars, ragVars, wsmVars, poolVars>>

\* one turn of the loop: the token of the next word is sent
SendTokenStep ==
    /\ answer # NoAnswer
    /\ Len(emitted) < Len(split(answer))
    /\ emitted' = Append(emitted, token(Len(emitted), split(answer)[Len(emitted) + 1]))
    /\ UNCHANGED <<answer, wsVars, storeVars, apiVars, ragVars, wsmVars, poolVars>>

NextTokens == (\E text \in Texts : SendTokensCall(text)) \/ SendTokenStep

\* the token loop as a function of the answer
SpecTokens == Init /\ [][NextTokens]_vars

\* ------------------------------------------------- WSManager (frontend)
\* await manager.start(): the _run task is created
WSStart ==
    /\ wrun = "off"
    /\ wrun' = "connecting"
    /\ UNCHANGED <<wconn, reader, writer, holding, send_q, stopped, delivered, nqueued,
                   ncloses, nconnects, wsVars, storeVars, apiVars, ragVars, tokVars, poolVars>>

\* _run: self._ws = await self._connect(), then the reader and writer tasks
\* are created and _run waits for them
RunConnect ==
    /\ wrun = "connecting"
    /\ wconn' = "open"
    /\ nconnects' = nconnects + 1
    /\ reader' = "running"
    /\ writer' = "get"
    /\ wrun' = "waiting"
    /\ UNCHANGED <<holding, send_q, stopped, delivered, nqueued, ncloses,
                   wsVars, storeVars, apiVars, ragVars, tokVars, poolVars>>

\* the server closes the connection (the 1011 closure after an error event)
ServerClose ==
    /\ wconn = "open"
    /\ ncloses < MaxCloses
    /\ ncloses' = ncloses + 1
    /\ wconn' = "closed"
    /\ UNCHANGED <<wrun, reader, writer, holding, send_q, stopped, delivered, nqueued,
                   nconnects, wsVars, storeVars, apiVars, ragVars, tokVars, poolVars>>

\* _reader: recv raises ConnectionClosed (or, the websocket gone, another
\* exception); either except clause breaks and the task returns
ReaderClosed ==
    /\ reader = "running"
    /\ wconn # "open"
    /\ reader' = "done"
    /\ UNCHANGED <<wrun, wconn, writer, holding, send_q, stopped, delivered, nqueued,
                   ncloses, nconnects, wsVars, storeVars, apiVars, ragVars, tokVars, poolVars>>

\* _writer: data = await self._send_q.get(), which waits while the queue is
\* empty
WriterGet ==
    /\ writer = "get"
    /\ send_q # << >>
    /\ holding' = Head(send_q)
    /\ send_q' = Tail(send_q)
    /\ writer' = "send"
    /\ UNCHANGED <<wrun, wconn, reader, stopped, delivered, nqueued, ncloses, nconnects,
                   wsVars, storeVars, apiVars, ragVars, tokVars, poolVars>>

\* await self._send_q.put(data)
requeue(q, data) == Append(q, data)

\* _writer: await self._ws.send(data). On an open connection the payload is
\* sent and the loop goes on while not stopped; ConnectionClosed requeues the
\* payload and breaks; any other exception (the websocket gone) breaks
WriterSend ==
    /\ writer = "send"
    /\ holding' = NoData
    /\ delivered' = IF wconn = "open" THEN Append(delivered, holding) ELSE delivered
    /\ send_q' = IF wconn = "closed" THEN requeue(send_q, holding) ELSE send_q
    /\ writer' = IF wconn = "open" /\ ~stopped THEN "get" ELSE "done"
    /\ UNCHANGED <<wrun, wconn, reader, stopped, nqueued, ncloses, nconnects,
                   wsVars, storeVars, apiVars, ragVars, tokVars, poolVars>>

\* _run: asyncio.wait(..., return_when=FIRST_EXCEPTION) returns. Neither task
\* lets an exception out, so it returns when both tasks are done; the finally
\* clause closes the websocket; then the sleep, or the end when stopped
RunWaitReturns ==
    /\ wrun = "waiting"
    /\ reader = "done" /\ writer = "done"
    /\ wconn' = "none"
    /\ wrun' = IF stopped THEN "ended" ELSE "sleeping"
    /\ UNCHANGED <<reader, writer, holding, send_q, stopped, delivered, nqueued, ncloses,
                   nconnects, wsVars, storeVars, apiVars, ragVars, tokVars, poolVars>>

\* _run: await asyncio.sleep(backoff), then the test of the while loop
RunSleep ==
    /\ wrun = "sleeping"
    /\ wrun' = IF stopped THEN "ended" ELSE "connecting"
    /\ UNCHANGED <<wconn, reader, writer, holding, send_q, stopped, delivered, nqueued,
                   ncloses, nconnects, wsVars, storeVars, apiVars, ragVars, tokVars, poolVars>>

\* await manager.send(payload): the payload is put on the queue
UserSend ==
    /\ nqueued < MaxMsgs
    /\ nqueued' = nqueued + 1
    /\ send_q' = Append(send_q, nqueued + 1)
    /\ UNCHANGED <<wrun, wconn, reader, writer, holding, stopped, delivered, ncloses,
                   nconnects, wsVars, storeVars, apiVars, ragVars, tokVars, poolVars>>

\* await manager.stop(): _stopped is set and the _run task is cancelled, its
\* finally clause and stop close the websocket; the reader and writer tasks
\* are not cancelled
WSStop ==
    /\ wrun \notin {"off", "ended"}
    /\ ~stopped
    /\ stopped' = TRUE
    /\ wrun' = "ended"
    /\ wconn' = "none"
    /\ UNCHANGED <<reader, writer, holding, send_q, delivered, nqueued, ncloses, nconnects,
                   wsVars, storeVars, apiVars, ragVars, tokVars, poolVars>>

\* the steps the event loop takes for the manager's tasks
WSTasks ==
    RunConnect \/ ReaderClosed \/ WriterGet \/ WriterSend \/ RunWaitReturns \/ RunSleep

NextWS == WSStart \/ WSTasks \/ ServerClose \/ UserSend \/ WSStop

\* the manager, the user and the server; the event loop runs every task that
\* can take a step
SpecWS == Init /\ [][NextWS]_vars /\ WF_vars(WSTasks)

\* ------------------------------------------------------ get_db_connection
max_size == 10      \* AsyncConnectionPool(max_size=10)

\* what get_db_connection can do: return the connection it took; raise
\* after it took one (the SELECT 1 test fails); raise with none taken
\* (getconn fails, or times out when max_size connections are checked out)
get_db_connection_outcomes ==
    IF checked_out < max_size THEN {"connection", "test_raises", "getconn_raises"}
    ELSE {"getconn_raises"}

\* a request resolves its dependencies: connection = await pool.getconn(),
\* the test query, return connection; the request is served when it got one
RequestBegin ==
    /\ nrequests < MaxRequests
    /\ inflight < MaxInFlight
    /\ nrequests' = nrequests + 1
    /\ \E out \in get_db_connection_outcomes :
        /\ checked_out' = IF out = "getconn_raises" THEN checked_out ELSE checked_out + 1
        /\ inflight' = IF out = "connection" THEN inflight + 1 ELSE inflight
    /\ UNCHANGED <<wsVars, storeVars, apiVars, ragVars, tokVars, wsmVars>>

\* the request ends: get_db_connection returned the connection with return,
\* not yield, so nothing runs for it now
RequestEnd ==
    /\ inflight > 0
    /\ inflight' = inflight - 1
    /\ UNCHANGED <<checked_out, nrequests, wsVars, storeVars, apiVars, ragVars, tokVars, wsmVars>>

NextPool == RequestBegin \/ RequestEnd

\* requests served with the connection pool
SpecPool == Init /\ [][NextPool]_vars

\* ------------------------------------------------------------ observations
\* the events on websocket w that handler c produced for its n-th frame
EventsOf(w, c, n) == SelectSeq(log[w], LAMBDA e : e.by = c /\ e.n = n)

Types(events) == [i \in 1..Len(events) |-> events[i].type]

Count(types, t) == Cardinality({i \in 1..Len(types) : types[i] = t})

\* start, then k step, then n token, then end
SuccessSequence(k, n) ==
    [i \in 1..(k + n + 2) |->
        IF i = 1 THEN "start"
        ELSE IF i <= k + 1 THEN "step"
        ELSE IF i <= k + n + 1 THEN "token"
        ELSE "end"]

\* the place of an event type in a message's sequence
Phase(t) == CASE t = "start" -> 1 [] t = "step" -> 2 [] t = "token" -> 3 [] OTHER -> 4

\* handler c has just processed a message to the end with no exception: it
\* is back at receive_text and the last frame it took carried a message
Processed(c) == pc[c] = "receive" /\ frame[c] = "msg"

ErrorEvents == {e \in UNION {{log[w][i] : i \in 1..Len(log[w])} : w \in Conns} : e.type = "error"}

\* ------------------------------------------------------------------ claims
\* C1: for every non-empty message processed with no exception, the events
\* sent on the connection it arrived on are exactly one start, then zero or
\* more step, then one or more token, as many as the answer has words, then
\* one end.
C1_SuccessfulSequence ==
    \A c \in Conns :
        Processed(c) =>
            /\ words[c] >= 1
            /\ \E k \in 0..Len(log[c]) :
                   Types(EventsOf(c, c, nrecv[c])) = SuccessSequence(k, words[c])

\* C2: for a handled message the channel gets the token events and one end,
\* or a single error event, never both: no message has an end event and an
\* error event, and no message has two error events.
C2_EndOrError ==
    \A w \in Conns, c \in Conns, n \in 1..MaxFrames :
        LET t == Types(EventsOf(w, c, n))
        IN  /\ ~(Count(t, "end") > 0 /\ Count(t, "error") > 0)
            /\ Count(t, "error") <= 1

\* C3: on every websocket the events of one message are in the order start,
\* step, token, end/error, and the events of two messages never interleave,
\* also when two connections share a session id.
C3_OrderedPerMessage ==
    \A w \in Conns :
        \A i \in 1..Len(log[w]), j \in 1..Len(log[w]) :
            (i < j /\ log[w][i].by = log[w][j].by /\ log[w][i].n = log[w][j].n) =>
                /\ Phase(log[w][i].type) <= Phase(log[w][j].type)
                /\ \A k \in i..j : log[w][k].by = log[w][i].by /\ log[w][k].n = log[w][i].n

\* C4: a frame that is not JSON, or JSON that is not an object, is ignored:
\* the step that receives it sends no event, leaves the registry as it is
\* and leaves the handler at receive_text for the next frame.
C4_UnparseableIgnored ==
    [][\A c \in Conns :
        (pc[c] = "receive" /\ nrecv'[c] = nrecv[c] + 1 /\ frame'[c] \in Unparseable) =>
            (pc'[c] = "receive" /\ active' = active /\ log' = log)]_vars

\* C5: the content of an error event does not depend on the exception: it
\* is the content the handler would have sent for any other exception text.
C5_ErrorContentGeneric ==
    \A ev \in ErrorEvents :
        \A e \in ExcTexts \cup {StoreText, TransportText} : ev.content = error_content(e)

\* C6: after an error event on a websocket, that websocket is closed with
\* code 1011 by the handler that sent the error, and no start event is
\* emitted on it any more.
C6_ClosedAfterError ==
    \A w \in Conns :
        \A i \in 1..Len(log[w]) :
            log[w][i].type = "error" =>
                /\ \A j \in (i + 1)..Len(log[w]) : log[w][j].type # "start"
                /\ (pc[log[w][i].by] = "done" => closeCode[w] = InternalErrorCode)

\* C8: when the client goes away while process_query is in flight, no later
\* send of the run's output raises an exception (nothing is delivered: the
\* client has gone).
C8_SendAfterCloseSilent ==
    \A c \in Conns : closedInFlight[c] => exc[c] # TransportText

\* C9: a failure while processing a message on one session's channel leaves
\* every channel of another session key alone: it gets no event of the failing
\* handler, stays registered while its handler runs, is closed by nothing but
\* its own failure, and its handler ends only for a reason of its own.
C9_OtherSessionsUnaffected ==
    \A c \in Conns, d \in Conns :
        (exc[c] # "none" /\ sid[d] # "none" /\ sid[c] # sid[d]) =>
            /\ \A i \in 1..Len(log[d]) : log[d][i].by = d
            /\ (pc[d] \notin {"idle", "done"} => active[sid[d]] = d)
            /\ (appState[d] = "disconnected" =>
                    closeCode[d] = InternalErrorCode /\ exc[d] # "none")
            /\ (pc[d] = "done" =>
                    \/ frame[d] \in Unparseable
                    \/ ~clientOpen[d]
                    \/ exc[d] \in ExcTexts \cup {StoreText})

\* C9 witness: one handler failed, sent its error event and closed its
\* websocket with 1011, while the handler of another session, its client
\* still there, has sent the end event of a message of its own and is
\* registered and about to append the turn.
C9_Witness ==
    \E c \in Conns, d \in Conns :
        /\ sid[c] # sid[d]
        /\ pc[c] = "done" /\ closeCode[c] = InternalErrorCode
        /\ \E i \in 1..Len(log[c]) : log[c][i].type = "error"
        /\ pc[d] = "add_user" /\ active[sid[d]] = d
        /\ log[d] # << >> /\ log[d][Len(log[d])].type = "end"
        /\ clientOpen[d]

\* C7: send_message to a session key that is not registered sends nothing,
\* raises nothing and leaves the registry unchanged.
C7_SendToUnregistered ==
    [][(ncalls' = ncalls + 1 /\ lastCall'.op = "send" /\ active[lastCall'.key] = NoConn) =>
            (log' = log /\ active' = active /\ lastCall'.out = "noop")]_vars

\* C7 witness: a send_message call to an unregistered key has returned, with
\* a websocket connected before and every key deregistered since.
C7_Witness ==
    /\ lastCall.op = "send" /\ lastCall.out = "noop"
    /\ \E w \in Conns : appState[w] = "connected"
    /\ \A s \in Sessions : active[s] = NoConn

\* C10: get_messages(session, limit) with limit >= 1 returns the most recent
\* min(limit, n) messages of the n-message log, in the order they were
\* appended, and never more than limit.
C10_MostRecentInOrder ==
    (got.s # "none" /\ got.limit >= 1) =>
        LET n == Len(got.log)
            k == Min(got.limit, n)
        IN  /\ Len(got.msgs) = k
            /\ Len(got.msgs) <= got.limit
            /\ \A i \in 1..k : got.msgs[i] = got.log[n - k + i]

\* C10 witness: a read with limit >= 1 of a log longer than the limit, so
\* that the oldest messages are cut off.
C10_Witness ==
    /\ got.s # "none" /\ got.limit >= 1
    /\ Len(got.log) > got.limit
    /\ Len(got.msgs) = got.limit

\* C11: ChatCache.get_messages(session, limit) returns the messages in the
\* order ChatCache.add_message appended them, cut only at the oldest end: the
\* newest min(limit, n) of the n messages appended, oldest first.
C11_CacheNewestOldestFirst ==
    (got.s # "none" /\ ~got.failed) =>
        LET n == Len(got.log)
            k == Min(got.limit, n)
        IN  got.msgs = [i \in 1..k |-> got.log[n - k + i]]

\* C12: get_messages(limit) of the session-bound history of chat_history.py
\* never returns more than limit messages, however long the stored log is.
C12_HistoryAtMostLimit ==
    got.s # "none" => Len(got.msgs) <= got.limit

\* C13: a history read whose Redis call failed surfaces an error to its
\* caller: it does not return normally, and in particular not with an empty
\* list.
C13_ReadFailureSurfaced ==
    (got.s # "none" /\ got.failed) => got.out = "raise"

\* C14: add_message appends the message at the tail of the session's log
\* and resets the expiry to the configured TTL, get_messages changes neither
\* the log nor the expiry, and so a key that exists always expires TTL after
\* the last message was appended to it.
C14_AppendResetsExpiry ==
    [][\A s \in Sessions :
        /\ (Len(appended'[s]) = Len(appended[s]) + 1) =>
              /\ redis'[s] = Append(redis[s], model_dump_json(appended'[s][Len(appended'[s])]))
              /\ ttl'[s] = redis_ttl
        /\ (got' # got) => (redis' = redis /\ ttl' = ttl)
        /\ (redis'[s] # << >>) => (ttl'[s] + age'[s] = redis_ttl)]_vars

\* the last call was clear(s), or a get_messages(s) that found no log
Fresh(s) ==
    \/ lastCall.op = "clear" /\ lastCall.key = s
    \/ lastCall.op = "get" /\ lastCall.key = s /\ got.s = s /\ got.log = << >>

\* C15: clear raises nothing and leaves no log and no expiry, also on an
\* absent session, where it changes nothing; after it get_messages returns the
\* empty list, and a following add_message that Redis serves leaves a log of
\* exactly that message with the expiry at the full TTL.
C15_ClearThenReadThenAppend ==
    [][\A s \in Sessions :
        /\ (lastCall' # lastCall /\ lastCall'.op = "clear" /\ lastCall'.key = s) =>
              /\ lastCall'.out = "ok"
              /\ redis'[s] = << >> /\ ttl'[s] = 0
              /\ (redis[s] = << >> => (redis' = redis /\ ttl' = ttl))
        /\ (Fresh(s) /\ lastCall'.op = "get" /\ lastCall'.key = s) =>
              (got'.out = "ok" /\ got'.msgs = << >>)
        /\ (Fresh(s) /\ lastCall'.op = "add" /\ lastCall'.key = s /\ lastCall'.out = "ok") =>
              /\ Len(appended'[s]) = 1
              /\ redis'[s] = <<model_dump_json(appended'[s][1])>>
              /\ ttl'[s] = redis_ttl]_vars

\* C15 witness: a log that a read had found was cleared, with no time gone
\* by since (the other session's key still has its full TTL), and the
\* add_message that followed has returned, leaving a log of that one message.
C15_Witness ==
    \E s \in Sessions, o \in Sessions :
        /\ s # o
        /\ Len(redis[o]) = 1 /\ model_validate(redis[o][1]).id = 1
        /\ ttl[o] = redis_ttl /\ age[o] = 0
        /\ got.s = s /\ Len(got.log) = 1 /\ got.log[1].id = 2
        /\ lastCall = [op |-> "add", key |-> s, out |-> "ok"]
        /\ Len(redis[s]) = 1 /\ model_validate(redis[s][1]).id = 3
        /\ ttl[s] = redis_ttl

\* C16: a session whose key has expired behaves as a new one: the handler's
\* history read of an absent key returns the empty list and the message is
\* processed on, and the add_message that follows leaves a log of only the
\* new message, with the full TTL.
C16_ExpiredSessionIsNew ==
    [][\A c \in Conns :
        /\ (pc[c] = "get_history" /\ redis[sid[c]] = << >>
                /\ pc'[c] # pc[c] /\ nfaults' = nfaults) =>
              (pc'[c] = "send_step1" /\ hist'[c] = << >>)
        /\ (pc[c] = "add_user" /\ redis[sid[c]] = << >> /\ pc'[c] = "add_assistant") =>
              /\ redis'[sid[c]] =
                    <<model_dump_json(ChatMessage(<<c, nrecv[c]>>, "user", "text"))>>
              /\ ttl'[sid[c]] = redis_ttl]_vars

\* C16 witness: a handler stored the turn of its first message, the key
\* expired, and the handler then processed a second message with an empty
\* history and stored its turn: the log holds the two new messages only.
C16_Witness ==
    \E c \in Conns :
        /\ nrecv[c] = 2 /\ pc[c] = "receive" /\ frame[c] = "msg"
        /\ \E i \in 1..Len(log[c]) : log[c][i].type = "end" /\ log[c][i].n = 1
        /\ hist[c] = << >>
        /\ redis[sid[c]] = <<model_dump_json(ChatMessage(<<c, 2>>, "user", "text")),
                             model_dump_json(ChatMessage(<<c, 2>>, "assistant", "text"))>>

\* the histories that are empty or hold whitespace only
BlankHistories == {"", "  "}

\* C17: aforward with an empty or whitespace-only history returns the
\* question unchanged and starts neither sub-call.
C17_FirstTurnShortCircuit ==
    (chat_history \in BlankHistories /\ rpc \notin {"idle", "aforward"}) =>
        /\ search_query = question
        /\ \A x \in Subs : sub[x] = NotCalled

\* C17 witness: aforward has returned on a whitespace-only history.
C17_Witness ==
    /\ chat_history = "  " /\ rpc = "search"
    /\ search_query = question

\* C18: with a non-empty history aforward starts both sub-calls with its own
\* (question, history), and whenever it has returned, both sub-calls have
\* completed and the search string is the question, then the keywords, then
\* the hypothetical answer they returned.
C18_JoinBeforeSynthesis ==
    (chat_history \notin BlankHistories /\ rpc \notin {"idle", "aforward"}) =>
        /\ \A x \in Subs :
              /\ sub[x].st # "idle"
              /\ sub[x].question = question /\ sub[x].chat_history = chat_history
        /\ (rpc \notin {"gather", "raised"} \/ search_query # NoQuery) =>
              /\ \A x \in Subs : sub[x].st = "done" /\ sub[x].out \in Outputs(x)
              /\ search_query = question \o <<" | Relevant concepts: ",
                                              sub["extract_keywords"].out, " | ",
                                              "Potential answer context: ",
                                              sub["generate_hyde"].out>>

\* C18 witness: aforward has returned the synthesized string of a multi-turn
\* run.
C18_Witness ==
    /\ chat_history \notin BlankHistories /\ rpc = "search"
    /\ Len(search_query) = 6
    /\ \A x \in Subs : sub[x].st = "done"

\* C19: when a sub-call has failed, process_query is still waiting or has
\* raised to its caller: no search string was returned, no search and no
\* generation was made, and no result was returned.
C19_SubFailureSurfaced ==
    (\E x \in Subs : sub[x].st = "failed") =>
        /\ rpc \in {"gather", "raised"}
        /\ search_query = NoQuery
        /\ nsearch = 0 /\ generated = NoGenerate /\ result = NoResult

\* C19 witness: process_query has raised after the hypothetical-answer
\* sub-call failed while the keyword sub-call had returned.
C19_Witness ==
    /\ rpc = "raised"
    /\ sub["generate_hyde"].st = "failed" /\ sub["extract_keywords"].st = "done"

\* C20: for k >= 1 the search returns at most k documents, each with a
\* similarity strictly above the threshold, in descending order of similarity.
C20_AtMostKAboveThreshold ==
    searched.k >= 1 =>
        /\ Len(searched.docs) <= searched.k
        /\ \A i \in 1..Len(searched.docs) : searched.docs[i].similarity > searched.threshold
        /\ \A i \in 1..Len(searched.docs), j \in 1..Len(searched.docs) :
              i < j => searched.docs[i].similarity >= searched.docs[j].similarity

\* C20 witness: a search that dropped rows below the threshold and cut the
\* rest to k.
C20_Witness ==
    /\ searched.k >= 1 /\ ~searched.fails
    /\ Len(searched.docs) = searched.k
    /\ \E i \in 1..Len(searched.corpus) : searched.corpus[i] <= searched.threshold
    /\ Cardinality({i \in 1..Len(searched.corpus) :
                        searched.corpus[i] > searched.threshold}) > searched.k

\* C21: when the search served by the backend finds no document above the
\* threshold, process_query returns, as a normal result, the fallback answer
\* with no retrieved documents and the search string aforward computed, and
\* the answer generator is not called.
C21_NoContextFallback ==
    (nsearch > 0 /\ ~searched.fails
        /\ \A i \in 1..Len(searched.corpus) : searched.corpus[i] <= searched.threshold) =>
        /\ rpc = "returned"
        /\ result = [answer |-> FallbackAnswer, retrieved_docs |-> << >>,
                     search_query |-> search_query]
        /\ search_query # NoQuery
        /\ generated = NoGenerate

\* C21 witness: a multi-turn run returned the fallback for a corpus that has
\* documents, none above the threshold.
C21_Witness ==
    /\ rpc = "returned" /\ ~searched.fails
    /\ Len(searched.corpus) > 0 /\ searched.docs = << >>
    /\ Len(search_query) = 6

\* C22: when the embedding client or the vector backend fails during the
\* search, process_query raises to its caller: it returns no RAGResult, in
\* particular not the fallback answer.
C22_RetrievalFailureRaises ==
    (nsearch > 0 /\ searched.fails) => (rpc = "raised" /\ result = NoResult)

\* C23: every call of the answer generator gets the caller's question, not
\* the synthesized search string, and the caller's chat history.
C23_GeneratorGetsOriginalQuestion ==
    generated # NoGenerate =>
        /\ generated.question = question
        /\ generated.chat_history = chat_history
        /\ (chat_history \notin BlankHistories => generated.question # search_query)

\* C23 witness: the generator was called in a multi-turn run, where the
\* search string differs from the question.
C23_Witness ==
    /\ generated.st = "done" /\ chat_history \notin BlankHistories
    /\ search_query # question

\* C24: in one run the stages are invoked at most once each and in the
\* order query understanding, retrieval, generation; a stage starts only when
\* the one before it has completed, and after a failure no stage is invoked.
C24_StagesOnceInOrder ==
    /\ \E n \in 0..3 : stages = SubSeq(<<"aforward", "search", "generate">>, 1, n)
    /\ nsearch <= 1
    /\ (Len(stages) >= 2 => search_query # NoQuery /\ \A x \in Subs : sub[x].st # "failed")
    /\ (Len(stages) = 3 => nsearch = 1 /\ searched.docs # << >>)
    /\ (rpc = "raised" => \/ (Len(stages) = 1 /\ \E x \in Subs : sub[x].st = "failed")
                          \/ (Len(stages) = 3 /\ generated.st = "failed"))

\* C24 witness: a run in which all three stages ran and the generation
\* failed.
C24_Witness ==
    /\ rpc = "raised" /\ Len(stages) = 3 /\ generated.st = "failed"

\* C25: aforward neither returns nor raises while one of its sub-calls is
\* still running.
C25_JoinNotRace ==
    rpc \notin {"idle", "aforward", "gather"} => \A x \in Subs : sub[x].st # "running"

\* the rows of the whole ranking of a corpus
Ranking(corpus) == [i \in 1..Len(corpus) |-> [id |-> i, similarity |-> corpus[i]]]

\* the first k rows of the whole ranking that have similarity > threshold
FirstKQualifying(corpus, k, threshold) ==
    LET q == SelectSeq(Ranking(corpus), LAMBDA row : row.similarity > threshold)
    IN  SubSeq(q, 1, Min(k, Len(q)))

\* C26: for a ranked corpus, k >= 1 and a threshold, a search the backend
\* serves returns exactly the first k documents of the whole ranking that have
\* similarity > threshold: the limit of 2*k candidates omits none of them.
C26_ExactlyFirstKQualifying ==
    (searched.k >= 1 /\ ~searched.fails) =>
        searched.docs = FirstKQualifying(searched.corpus, searched.k, searched.threshold)

\* C26 witness: a search of a corpus with more than 2*k documents, of which
\* more than k are above the threshold.
C26_Witness ==
    /\ searched.k >= 1 /\ ~searched.fails
    /\ Len(searched.corpus) > 2 * searched.k
    /\ Len(searched.docs) = searched.k
    /\ searched.corpus[searched.k + 1] > searched.threshold

\* fetching exactly k candidates and then filtering
FetchKThenFilter(corpus, k, threshold) ==
    SelectSeq(Ranking(corpus), LAMBDA row : row.id <= k /\ row.similarity > threshold)

\* C27 as stated: there is a ranked corpus (the one searched or any other), a
\* k and a threshold for which search returns strictly more documents than
\* fetching k candidates and filtering them would.
C27_OverfetchYieldsMore ==
    \E corpus \in RankedCorpora \cup {searched.corpus}, k \in 1..MaxK, threshold \in Sims :
        Len(search(corpus, k, threshold, FALSE)) > Len(FetchKThenFilter(corpus, k, threshold))

\* C27 amended: for every ranked corpus, k >= 1 and threshold, a search the
\* backend serves returns exactly the documents that fetching k candidates and
\* filtering them would return; the over-fetch never yields more.
C27_OverfetchYieldsSame ==
    (searched.k >= 1 /\ ~searched.fails) =>
        searched.docs = FetchKThenFilter(searched.corpus, searched.k, searched.threshold)

\* C27 witness: a search where filtering the first k candidates leaves fewer
\* than k documents although the corpus has at least 2*k.
C27_Witness ==
    /\ searched.k >= 1 /\ ~searched.fails
    /\ Len(searched.corpus) >= 2 * searched.k
    /\ Len(FetchKThenFilter(searched.corpus, searched.k, searched.threshold)) < searched.k
    /\ Len(searched.docs) < searched.k

RECURSIVE Concat(_)
\* the concatenation of a sequence of texts
Concat(ts) == IF ts = << >> THEN << >> ELSE Head(ts) \o Concat(Tail(ts))

RECURSIVE JoinSingleSpaces(_)
\* the words joined by single spaces
JoinSingleSpaces(ws) ==
    IF ws = << >> THEN << >>
    ELSE IF Len(ws) = 1 THEN ws[1]
    ELSE ws[1] \o <<" ">> \o JoinSingleSpaces(Tail(ws))

\* C28: once a token or end event of a message has been sent to the client,
\* the turn is in the session's stored log: the user message and after it
\* the assistant message of that message.
C28_TurnAppendedBeforeEvents ==
    \A c \in Conns, n \in 1..MaxFrames :
        (\E i \in 1..Len(log[c]) :
            /\ log[c][i].by = c /\ log[c][i].n = n
            /\ log[c][i].type \in {"token", "end"}) =>
        \E i, j \in 1..Len(redis[OwnSession(c)]) :
            /\ i < j
            /\ redis[OwnSession(c)][i] = model_dump_json(ChatMessage(<<c, n>>, "user", "text"))
            /\ redis[OwnSession(c)][j] = model_dump_json(ChatMessage(<<c, n>>, "assistant", "text"))

\* C29: when the token loop has run through an answer, it has sent one token
\* per whitespace-delimited word, in word order: the first token is the bare
\* first word, every later token is one space followed by the next word, and
\* the contents concatenated give the words joined by single spaces.
C29_TokensJoinWords ==
    (answer # NoAnswer /\ Len(emitted) = Len(split(answer))) =>
        /\ \A i \in 1..Len(emitted) :
               emitted[i] = (IF i = 1 THEN split(answer)[1] ELSE <<" ">> \o split(answer)[i])
        /\ Concat(emitted) = JoinSingleSpaces(split(answer))

\* C29 witness: the loop has run through an answer of two or more words that
\* has more whitespace than single spaces between the words.
C29_Witness ==
    /\ answer # NoAnswer
    /\ Len(emitted) = Len(split(answer))
    /\ Len(emitted) >= 2
    /\ Len(answer) > Len(Concat(emitted))

\* the events of message n of connection c are complete and its turn is stored
Completed(c, n) ==
    /\ \E i \in 1..Len(log[c]) :
           log[c][i].by = c /\ log[c][i].n = n /\ log[c][i].type = "end"
    /\ \E i, j \in 1..Len(redis[OwnSession(c)]) :
           /\ i < j
           /\ redis[OwnSession(c)][i] = model_dump_json(ChatMessage(<<c, n>>, "user", "text"))
           /\ redis[OwnSession(c)][j] = model_dump_json(ChatMessage(<<c, n>>, "assistant", "text"))

\* message n of connection c has begun: its start event was sent
Started(c, n) ==
    \E i \in 1..Len(log[c]) :
        log[c][i].by = c /\ log[c][i].n = n /\ log[c][i].type = "start"

\* C30: a connection's messages are handled one at a time: when the handler
\* takes the next frame, and when it sends a start event, every earlier
\* message of the connection that was started has its events through end sent
\* and both of its history appends done.
C30_OneMessageAtATime ==
    [][\A c \in Conns :
        (\/ nrecv'[c] # nrecv[c]
         \/ (Len(log'[c]) = Len(log[c]) + 1 /\ log'[c][Len(log'[c])].type = "start"
             /\ log'[c][Len(log'[c])].by = c)) =>
            \A m \in 1..MaxFrames :
                (Started(c, m) /\ m < (IF nrecv'[c] # nrecv[c] THEN nrecv'[c]
                                       ELSE log'[c][Len(log'[c])].n)) => Completed(c, m)]_vars

\* C30 witness: the second message of a connection has been started after the
\* first one was completed.
C30_Witness ==
    \E c \in Conns : Started(c, 1) /\ Completed(c, 1) /\ Started(c, 2)

\* C31: whenever a handler has terminated, by a client disconnect, a
\* transport error or the closure that follows an error event, the session
\* key of its connection is not registered to that connection any more.
C31_NoEntryOutlivesHandler ==
    \A c \in Conns : pc[c] = "done" => active[OwnSession(c)] # c

\* C32: a connection stays registered under its session key for as long as
\* its handler runs: no connect or disconnect of another connection with the
\* same session id replaces or removes the entry.
C32_RegisteredWhileHandlerRuns ==
    \A c \in Conns : pc[c] \notin {"idle", "done"} => active[sid[c]] = c

\* C33: every event a websocket gets was produced by the handler of that
\* websocket, for a message received on it.
C33_EventsOnReceivingSocket ==
    \A w \in Conns : \A i \in 1..Len(log[w]) : log[w][i].by = w

\* no handler is in the middle of a message
Quiescent == \A c \in Conns : pc[c] \in {"idle", "receive", "done"}

\* C34: when no message is being handled, every session's stored log is a
\* sequence of complete turns: each user message is immediately followed by
\* the assistant message that answers it, and nothing else is stored.
C34_LogOfCompleteTurns ==
    Quiescent =>
        \A s \in Sessions :
            /\ Len(redis[s]) % 2 = 0
            /\ \A i \in 1..Len(redis[s]) :
                   i % 2 = 1 =>
                       /\ model_validate(redis[s][i]).role = "user"
                       /\ model_validate(redis[s][i + 1]).role = "assistant"
                       /\ model_validate(redis[s][i + 1]).id = model_validate(redis[s][i]).id

\* C35: in every state, every session key that holds at least one message has
\* an expiry set.
C35_StoredKeyHasExpiry ==
    \A s \in Sessions : redis[s] # << >> => ttl[s] > 0

\* the handler positions in which the RAGResult of the current message is held
HasResult == {"send_step2", "send_step3", "send_token", "send_end", "add_user", "add_assistant"}

\* C36: a message handled when the session has no stored history takes the
\* DIRECT path: no sub-call is made and the search_query of the result, which
\* the end event carries, is the user's message; a message handled when the
\* session has stored messages takes the SYNTHESIZE path: both sub-calls
\* are made and the search_query is the synthesized one; the history read is
\* empty exactly when the session key holds nothing (never stored, expired or
\* cleared), and it never contains the message being processed.
C36_DirectThenSynthesize ==
    [][\A c \in Conns :
        /\ (pc'[c] \in HasResult /\ hist'[c] = << >>) =>
               /\ result'.search_query = question'
               /\ \A x \in Subs : sub'[x] = NotCalled
        /\ (pc'[c] \in HasResult /\ hist'[c] # << >>) =>
               /\ \A x \in Subs : sub'[x].st = "done"
               /\ result'.search_query =
                      final_search_query(question', sub'["extract_keywords"].out,
                                         sub'["generate_hyde"].out)
        /\ (pc[c] = "get_history" /\ pc'[c] = "send_step1") =>
               (hist'[c] = << >> <=> redis[sid[c]] = << >>)
        /\ \A i \in 1..Len(hist'[c]) : hist'[c][i].id # <<c, nrecv'[c]>>]_vars

\* C36 witness: the second message of a connection is at its end event on the
\* SYNTHESIZE path, its history holding the turn of the first message, which
\* took the DIRECT path.
C36_Witness ==
    \E c \in Conns :
        /\ pc[c] = "send_end" /\ nrecv[c] = 2
        /\ Len(hist[c]) = 2 /\ hist[c][1].id = <<c, 1>>
        /\ \A x \in Subs : sub[x].st = "done"
        /\ result.search_query # question
        /\ \E i \in 1..Len(log[c]) : log[c][i].type = "end" /\ log[c][i].n = 1

\* C37: with no request in flight no pooled connection is checked out.
C37_ConnectionsReturned ==
    inflight = 0 => checked_out = 0

\* C38: whenever the server has closed the connection and stop() has not been
\* called, the manager eventually opens a new connection (or is stopped).
C38_ReconnectsAfterClose ==
    \A n \in 0..(MaxCloses + 1) :
        (wconn = "closed" /\ ~stopped /\ nconnects = n) ~> (stopped \/ nconnects > n)

\* C39: the payloads reach the backend in the order they were passed to send:
\* what the backend has received is the payloads 1, 2, ... with none left out.
C39_DeliveredInQueueOrder ==
    \A i \in 1..Len(delivered) : delivered[i] = i

====
